---- MODULE Spec2Model ----
(***************************************************************************)
(* A model of the PerceptualColor chroma-hue diagram: the widget           *)
(* ChromaHueDiagram (src/src/chromahuediagram.cpp) with its colour         *)
(* property and its lazily regenerated diagram image cache, the            *)
(* rasterizer generateDiagramImage, and the gamut mapping done by the      *)
(* FullColorDescription constructor (outOfGamutBehaviour::sacrifyChroma).  *)
(*                                                                         *)
(* Numbers.  Lightness, chroma and hue are integers (chroma units and      *)
(* degrees).  A Lab coordinate of a pixel is a fraction; the model keeps   *)
(* its numerator over the common denominator imageSize - 2 * border.       *)
(* The device gamut is a property of the ICC profile that littleCMS        *)
(* loads; the model uses a fixed star-shaped solid whose maximal chroma   *)
(* depends on the lightness and on the quadrant of the hue, so that the    *)
(* same solid can be tested in LCh and in Lab without trigonometry.        *)
(***************************************************************************)
EXTENDS Integers, FiniteSets, Sequences, TLC

VARIABLES
    m_color,              \* ChromaHueDiagram::m_color, as its LCh value
    m_widgetDiameter,     \* ChromaHueDiagram::m_widgetDiameter
    m_diagramOffset,      \* ChromaHueDiagram::m_diagramOffset
    m_diagramCacheReady,  \* ChromaHueDiagram::m_diagramCacheReady
    m_diagramImage,       \* ChromaHueDiagram::m_diagramImage
    m_isWheelCacheReady,  \* ChromaHueDiagram::m_isWheelCacheReady
    m_wheelImage,         \* ChromaHueDiagram::m_wheelImage (its diameter)
    lch,                  \* the cmsCIELCh handed to the last FullColorDescription constructor
    behaviour,            \* the outOfGamutBehaviour handed to that constructor
    lastOp,               \* the handler that ran last, and the key it was given
    colorChanged,         \* colorChanged() signals that handler emitted
    colorUpdate,          \* the statements of setColor() in that handler, in their order,
                          \* and the widget as a slot connected to colorChanged() found it
    rasterCount,          \* calls of generateDiagramImage since the parameter tuple changed
    paintCount,           \* paint events since the parameter tuple changed
    keyPresses,           \* key press events handled so far
    r_in,                 \* rasterizer under test: its arguments
    r_out,                \* rasterizer under test: what the call did
    devicePixelRatioF,    \* QPaintDevice::devicePixelRatioF() of the widget's screen
    p_in,                 \* PolarPointF under test: the constructor's arguments
    p_out,                \* PolarPointF under test: the object constructed
    m_hue,                \* WheelColorPicker: hue() of its ColorWheel
    m_currentColor,       \* WheelColorPicker: currentColor() of its chroma-lightness diagram
    pickerOp,             \* WheelColorPicker: the call that ran last, the hue before it, the hue given
    m_isMouseEventActive, \* ChromaHueDiagram::m_isMouseEventActive
    cursor,               \* QWidget::cursor of the diagram: "BlankCursor", or "unset"
    hasFocus,             \* QWidget::hasFocus() of the diagram
    fallback,             \* what the last mouse or wheel handler did with an event it
                          \* did not handle itself
    pointer,              \* event->pos() of the last mouse or wheel event: whether it is
                          \* within the diagram surface, whether its Lab point is in the gamut
    pickedAt              \* the positions that handler gave to setColorFromImageCoordinates

vars == <<m_color, m_widgetDiameter, m_diagramOffset, m_diagramCacheReady,
          m_diagramImage, m_isWheelCacheReady, m_wheelImage, lch, behaviour,
          lastOp, colorChanged, colorUpdate, rasterCount, paintCount, keyPresses, r_in, r_out,
          devicePixelRatioF, p_in, p_out, m_hue, m_currentColor, pickerOp,
          m_isMouseEventActive, cursor, hasFocus, fallback, pointer, pickedAt>>

widgetVars == <<m_color, m_widgetDiameter, m_diagramOffset, m_diagramCacheReady,
                m_diagramImage, m_isWheelCacheReady, m_wheelImage, lch, behaviour,
                lastOp, colorChanged, colorUpdate, rasterCount, paintCount, keyPresses>>

rasterVars == <<r_in, r_out>>

screenVars == <<devicePixelRatioF>>

polarVars == <<p_in, p_out>>

pickerVars == <<m_hue, m_currentColor, pickerOp>>

mouseVars == <<m_isMouseEventActive, cursor, hasFocus, fallback, pointer, pickedAt>>

-----------------------------------------------------------------------------
(* Bounds of the model *)

\* Largest widget width and height a resize event delivers.
MaxDiameter == 4
\* ChromaHueDiagram::diagramBorder, scaled down to the small diameters.
DiagramBorder == 1
\* Key press events per behaviour.
MaxKeyPresses == 1
\* The counters rasterCount and paintCount saturate here.
CounterCap == 3
\* Largest image size handed to the rasterizer under test.
MaxImageSize == 4
\* Largest border handed to the rasterizer under test.
MaxBorder == 3
\* A qreal of the PolarPointF model counts steps of 1 / QrealSteps degree.
QrealSteps == 4
\* From this many degrees on a qreal holds whole degrees only: the spacing
\* of a double grows with its magnitude.
QrealCoarseFrom == 256

-----------------------------------------------------------------------------
(* Program constants *)

\* LchValues::neutralLightness, the default lightness
defaultLightness == 50
\* LchValues::srgbVersatileChroma, the default chroma
versatileSrgbChroma == 32
\* LchValues::neutralHue, the default hue
defaultHue == 0
\* LchValues::srgbMaximumChroma, the chroma range the widget shows
m_maxChroma == 132
\* LchValues::humanMaximumChroma, the upper bound of every chroma search
maximumChroma == 200
\* AbstractDiagram::singleStepChroma
singleStepChroma == 1
\* AbstractDiagram::singleStepHue, 360 / 100 in int arithmetic
singleStepHue == 360 \div 100
\* AbstractDiagram::pageStepChroma
pageStepChroma == 10 * singleStepChroma
\* AbstractDiagram::pageStepHue
pageStepHue == 10 * singleStepHue
\* Tolerance of the chroma search, in chroma units.
gamutPrecision == 1

Min(a, b) == IF a <= b THEN a ELSE b
Max(a, b) == IF a >= b THEN a ELSE b

-----------------------------------------------------------------------------
(* PolarPointF *)

\* fmod(angleDegree, 360), plus 360 when negative: the floored modulo.
normalizedAngleDegree(angleDegree) == angleDegree % 360

\* qreal arithmetic, scaled down: a value of magnitude below QrealCoarseFrom
\* degrees is any number of steps, a larger one is a whole number of degrees;
\* a sum is rounded to the nearest such value, a tie to the even one.
qrealRound(v) ==
    IF v > -QrealCoarseFrom * QrealSteps /\ v < QrealCoarseFrom * QrealSteps THEN v
    ELSE LET below == (v \div QrealSteps) * QrealSteps
             above == below + QrealSteps
         IN  IF v = below THEN v
             ELSE IF 2 * (v - below) < QrealSteps THEN below
             ELSE IF 2 * (v - below) > QrealSteps THEN above
             ELSE IF (below \div QrealSteps) % 2 = 0 THEN below ELSE above

\* fmod(x, y) for y > 0: exact, with the sign of x.
fmod(x, y) == IF x >= 0 THEN x % y ELSE -((-x) % y)

\* PolarPointF::normalizedAngleDegree on qreal values, in steps.
qrealNormalizedAngleDegree(angleDegree) ==
    LET temp == fmod(angleDegree, 360 * QrealSteps)
    IN  IF temp < 0 THEN qrealRound(temp + 360 * QrealSteps) ELSE temp

\* PolarPointF::PolarPointF(newRadial, newAngleDegree), both in steps.
PolarPointF(newRadial, newAngleDegree) ==
    IF newRadial < 0
    THEN [m_radial |-> newRadial * (-1),
          m_angleDegree |->
              qrealNormalizedAngleDegree(qrealRound(newAngleDegree + 180 * QrealSteps))]
    ELSE [m_radial |-> newRadial,
          m_angleDegree |-> qrealNormalizedAngleDegree(newAngleDegree)]

\* PolarPointF::operator==
polarEqual(p1, p2) ==
    /\ p1.m_radial = p2.m_radial
    /\ (p1.m_angleDegree = p2.m_angleDegree \/ p1.m_radial = 0)

-----------------------------------------------------------------------------
(* The device gamut (RgbColorSpace) *)

\* Maximal chroma of the gamut at lightness 50 in the four hue quadrants
\* [0,90), [90,180), [180,270), [270,360).
quadrantChroma == <<100, 40, 60, 35>>

\* The lightness range the profile can represent.
lightnessRepresentable(L) == L >= 0 /\ L <= 100

\* Maximal in-gamut chroma at lightness L in hue quadrant q (0..3); -1 when
\* not even the gray of that lightness is in the gamut.
gamutChroma(L, q) ==
    IF lightnessRepresentable(L)
    THEN (quadrantChroma[q + 1] * Min(L, 100 - L)) \div 50
    ELSE -1

\* The quadrant of the direction (a, b); the origin belongs to quadrant 0.
quadrantOfAB(a, b) ==
    IF a > 0 /\ b >= 0 THEN 0
    ELSE IF a <= 0 /\ b > 0 THEN 1
    ELSE IF a < 0 /\ b <= 0 THEN 2
    ELSE IF a >= 0 /\ b < 0 THEN 3
    ELSE 0

\* RgbColorSpace::inGamut(cmsCIELab): the Lab point (aN / den, bN / den) at
\* lightness L, den > 0.
inGamutLab(L, aN, bN, den) ==
    LET r == gamutChroma(L, quadrantOfAB(aN, bN))
    IN  /\ r >= 0
        /\ aN * aN + bN * bN <= r * r * den * den

\* RgbColorSpace::inGamut(cmsCIELCh) = inGamut(toLab(lch)): a negative
\* chroma names the point of chroma -C at the opposite hue.
inGamut(color) ==
    LET radial == IF color.C < 0 THEN -color.C ELSE color.C
        angle  == IF color.C < 0
                  THEN normalizedAngleDegree(color.h + 180)
                  ELSE normalizedAngleDegree(color.h)
        r      == gamutChroma(color.L, angle \div 90)
    IN  r >= 0 /\ radial <= r

-----------------------------------------------------------------------------
(* Gamut mapping: FullColorDescription with outOfGamutBehaviour *)

\* FullColorDescription::normalizeLch: the hue folded into [0, 360), a
\* negative chroma taken as chroma 0.
normalizeLch(color) ==
    [L |-> color.L, C |-> Max(color.C, 0), h |-> normalizedAngleDegree(color.h)]

\* The chroma search of moveChromaIntoGamut: lowerChroma is in the gamut,
\* upperChroma is the bound it has not passed; halve until they are within
\* gamutPrecision, within a budget of steps, and keep the lower one.
RECURSIVE chromaSearch(_, _, _, _, _)
chromaSearch(L, h, lowerChroma, upperChroma, budget) ==
    IF upperChroma - lowerChroma <= gamutPrecision \/ budget = 0
    THEN lowerChroma
    ELSE LET candidate == (lowerChroma + upperChroma) \div 2
         IN  IF inGamut([L |-> L, C |-> candidate, h |-> h])
             THEN chromaSearch(L, h, candidate, upperChroma, budget - 1)
             ELSE chromaSearch(L, h, lowerChroma, candidate, budget - 1)

\* Steps the chroma search may take.
searchBudget == 30

\* moveChromaIntoGamut() that searches whether the colour is in the gamut or not
moveChromaIntoGamut_alwaysSearches(color) ==
    IF ~inGamut([color EXCEPT !.C = 0]) THEN [color EXCEPT !.C = 0]
    ELSE LET startChroma == IF color.C >= maximumChroma THEN maximumChroma ELSE color.C
         IN  [color EXCEPT !.C = chromaSearch(color.L, color.h, 0, startChroma, searchBudget)]

\* moveChromaIntoGamut() that first takes the nearest lightness the profile
\* can represent
moveChromaIntoGamut_nearestLightness(color) ==
    LET lit == [color EXCEPT !.L = Max(0, Min(100, @))]
    IN  IF inGamut(lit) THEN lit
        ELSE LET startChroma == IF lit.C >= maximumChroma THEN maximumChroma ELSE lit.C
             IN  [lit EXCEPT !.C = chromaSearch(lit.L, lit.h, 0, startChroma, searchBudget)]

\* FullColorDescription::moveChromaIntoGamut on a normalized colour.
moveChromaIntoGamut(color) ==
    IF inGamut(color) THEN color
    ELSE IF ~inGamut([color EXCEPT !.C = 0]) THEN [color EXCEPT !.C = 0]
    ELSE LET startChroma == IF color.C >= maximumChroma THEN maximumChroma ELSE color.C
         IN  [color EXCEPT !.C = chromaSearch(color.L, color.h, 0, startChroma, searchBudget)]

\* The gamut mapper: FullColorDescription(colorSpace, lch, sacrifyChroma).toLch()
nearestInGamut(color) == moveChromaIntoGamut(normalizeLch(color))

\* FullColorDescription(colorSpace, lch, behaviour): the LCh value the object holds.
FullColorDescription(color, how) ==
    IF how = "sacrifyChroma" THEN nearestInGamut(color) ELSE color

\* LchDouble::hasSameCoordinates
hasSameCoordinates(c1, c2) == c1.L = c2.L /\ c1.C = c2.C /\ c1.h = c2.h

-----------------------------------------------------------------------------
(* Lab and LCh: FullColorDescription::toLab and FullColorDescription::toLch *)

\* The model keeps chroma in whole units and hue in whole degrees, so the
\* conversions round where the code computes in double precision.

\* cos of 0, 1, ..., 90 degrees in units of 1 / 10000.
cosTable ==
    <<
      10000, 9998, 9994, 9986, 9976, 9962, 9945, 9925, 9903, 9877,
      9848, 9816, 9781, 9744, 9703, 9659, 9613, 9563, 9511, 9455,
      9397, 9336, 9272, 9205, 9135, 9063, 8988, 8910, 8829, 8746,
      8660, 8572, 8480, 8387, 8290, 8192, 8090, 7986, 7880, 7771,
      7660, 7547, 7431, 7314, 7193, 7071, 6947, 6820, 6691, 6561,
      6428, 6293, 6157, 6018, 5878, 5736, 5592, 5446, 5299, 5150,
      5000, 4848, 4695, 4540, 4384, 4226, 4067, 3907, 3746, 3584,
      3420, 3256, 3090, 2924, 2756, 2588, 2419, 2250, 2079, 1908,
      1736, 1564, 1392, 1219, 1045, 872, 698, 523, 349, 175,
      0
    >>

cosDegree(h) ==
    LET n == h % 360
    IN  IF n <= 90 THEN cosTable[n + 1]
        ELSE IF n <= 180 THEN -cosTable[180 - n + 1]
        ELSE IF n <= 270 THEN -cosTable[n - 180 + 1]
        ELSE cosTable[360 - n + 1]

sinDegree(h) == cosDegree(h - 90)

\* n / d rounded to the nearest integer, d > 0: qRound()
qRound(n, d) == (2 * n + d) \div (2 * d)

Abs(n) == IF n < 0 THEN -n ELSE n

\* FullColorDescription::toLab(lch): a = C cos h, b = C sin h
toLab(color) ==
    [a |-> qRound(color.C * cosDegree(color.h), 10000),
     b |-> qRound(color.C * sinDegree(color.h), 10000)]

\* atan2(y, x) in whole degrees within [0, 360): the angle whose direction
\* is nearest to (x, y); atan2(0, 0) = 0.  Within the quadrant of (x, y)
\* the directions h lie to the right of (x, y) up to its angle and to the
\* left from there on.
atan2Degree(y, x) ==
    IF x = 0 /\ y = 0 THEN 0
    ELSE LET q == quadrantOfAB(x, y)
             aside(h) == x * sinDegree(h) - y * cosDegree(h)
             above == 90 * q
                      + Cardinality({h \in 90 * q .. 90 * q + 89 : aside(h) < 0})
         IN  IF above > 90 * q /\ -aside(above - 1) < aside(above)
             THEN above - 1
             ELSE above % 360

\* The chroma of the Lab point (aN / den, bN / den), den > 0: the root of
\* a^2 + b^2 rounded to the nearest integer.
chromaOfLab(aN, bN, den) ==
    LET low  == Max(Abs(aN), Abs(bN)) \div den
        high == (Abs(aN) + Abs(bN)) \div den + 1
    IN  CHOOSE c \in low .. high :
            /\ c = 0 \/ (2 * c - 1) * (2 * c - 1) * den * den <= 4 * (aN * aN + bN * bN)
            /\ 4 * (aN * aN + bN * bN) < (2 * c + 1) * (2 * c + 1) * den * den

-----------------------------------------------------------------------------
(* The rasterizer: ChromaHueDiagram::generateDiagramImage *)

\* A pixel: its alpha (0 transparent, 255 opaque, 128 an anti-aliased edge)
\* and the Lab colour it shows, as (L, a-numerator, b-numerator).
transparent == [alpha |-> 0, L |-> 0, a |-> 0, b |-> 0]

\* QImage(): the null image, of size 0 x 0.
nullImage ==
    [isNull |-> TRUE, size |-> 0, devicePixelRatio |-> 1,
     pixel |-> [p \in {} |-> transparent]]

pixelsOf(imageSize) == (0 .. imageSize - 1) \X (0 .. imageSize - 1)

Square(n) == n * n

\* QPainter::drawEllipse(border, border, width, width) with anti-aliasing:
\* how much of pixel (x, y) lies in the ellipse inscribed in that square,
\* in doubled coordinates: 0 nothing, 128 a part, 255 all of it.
ellipseCoverage(x, y, border, width) ==
    LET centre == 2 * border + width
        near(i) == IF centre < 2 * i THEN 2 * i - centre
                   ELSE IF centre > 2 * i + 2 THEN centre - (2 * i + 2)
                   ELSE 0
        far(i)  == Max(centre - 2 * i, 2 * i + 2 - centre)
    IN  IF width <= 0 THEN 0
        ELSE IF Square(far(x)) + Square(far(y)) <= Square(width) THEN 255
        ELSE IF Square(near(x)) + Square(near(y)) < Square(width) THEN 128
        ELSE 0

\* lab.a and lab.b computed without taking the border off x and y
labOfPixel_noBorderShift(x, y, imageSize, maxChroma, border) ==
    LET den == imageSize - 2 * border
    IN  [a |-> x * 2 * maxChroma - maxChroma * den,
         b |-> maxChroma * den - y * 2 * maxChroma]

\* lab.a and lab.b of the pixel (x, y), with scaleFactor = 2 * maxChroma /
\* (imageSize - 2 * border): their numerators over imageSize - 2 * border.
labOfPixel(x, y, imageSize, maxChroma, border) ==
    LET den == imageSize - 2 * border
    IN  [a |-> (x - border) * 2 * maxChroma - maxChroma * den,
         b |-> maxChroma * den - (y - border) * 2 * maxChroma]

\* The loops that paint the gamut into tempImage: the pixel (x, y) the loops
\* reach is set when its Lab point lies within maxChroma and colorRgb() finds
\* it in the gamut; QImage::setPixelColor ignores coordinates outside the image.
tempImagePixel(x, y, imageSize, maxChroma, lightness, border) ==
    LET maxIndex == imageSize - 1
        den == imageSize - 2 * border
        aN  == labOfPixel(x, y, imageSize, maxChroma, border).a
        bN  == labOfPixel(x, y, imageSize, maxChroma, border).b
    IN  IF /\ border <= x /\ x <= maxIndex - border
           /\ border <= y /\ y <= maxIndex - border
           /\ Square(aN) + Square(bN) <= Square(maxChroma) * Square(den)
           /\ inGamutLab(lightness, aN, bN, den)
        THEN [alpha |-> 255, L |-> lightness, a |-> aN, b |-> bN]
        ELSE transparent

\* The coordinates with which the loops call tempImage.setPixelColor(x, y, ...).
setPixelColorCalls(imageSize, maxChroma, lightness, border) ==
    {p \in (border .. imageSize - 1 - border) \X (border .. imageSize - 1 - border) :
        tempImagePixel(p[1], p[2], imageSize, maxChroma, lightness, border).alpha # 0}

\* generateDiagramImage after the test of the image size: tempImage, then
\* the ellipse filled with tempImage as its brush.  "divisors" holds the
\* value of imageSize - 2 * border by which scaleFactor was divided.
paintDiagramImage(imageSize, maxChroma, lightness, border) ==
    [image |->
        [isNull |-> imageSize <= 0,
         devicePixelRatio |-> 1,
         size   |-> Max(imageSize, 0),
         pixel  |-> [p \in pixelsOf(imageSize) |->
            LET t == tempImagePixel(p[1], p[2], imageSize, maxChroma, lightness, border)
                cover == ellipseCoverage(p[1], p[2], border, imageSize - 2 * border)
            IN  IF t.alpha = 0 \/ cover = 0 THEN transparent
                ELSE [t EXCEPT !.alpha = cover]]],
     divisors |-> {imageSize - 2 * border}]

\* generateDiagramImage that takes no notice of the border
rasterize_noBorder(imageSize, maxChroma, lightness, border) ==
    LET maxIndex == imageSize - 1
    IN  IF maxIndex < 1
        THEN [image |-> nullImage, divisors |-> {}]
        ELSE paintDiagramImage(imageSize, maxChroma, lightness, 0)

\* generateDiagramImage without its test of the image size.
rasterize_noSizeTest(imageSize, maxChroma, lightness, border) ==
    paintDiagramImage(imageSize, maxChroma, lightness, border)

\* generateDiagramImage that gives up where the border leaves no diagram
rasterize_rejectsBigBorder(imageSize, maxChroma, lightness, border) ==
    LET maxIndex == imageSize - 1
    IN  IF maxIndex < 1 \/ imageSize - 2 * border <= 0
        THEN [image |-> nullImage, divisors |-> {}]
        ELSE paintDiagramImage(imageSize, maxChroma, lightness, border)

\* ChromaHueDiagram::generateDiagramImage: the image, and what it divided by.
rasterize(imageSize, maxChroma, lightness, border) ==
    LET maxIndex == imageSize - 1
    IN  IF maxIndex < 1
        THEN [image |-> nullImage, divisors |-> {}]
        ELSE paintDiagramImage(imageSize, maxChroma, lightness, border)

generateDiagramImage(imageSize, maxChroma, lightness, border) ==
    rasterize(imageSize, maxChroma, lightness, border).image

-----------------------------------------------------------------------------
(* The widget ChromaHueDiagram *)

\* int division of C++, which truncates towards zero
truncDiv(a, b) == IF a >= 0 THEN a \div b ELSE -((-a) \div b)

saturated(n) == Min(n + 1, CounterCap)

\* The keys keyPressEvent tells apart; "other" is every other key.
Keys == {"Up", "Down", "Left", "Right", "PageUp", "PageDown", "Home", "End", "other"}

\* The colours an application sets through setColor() while the widget is shown.
shownColours ==
    [L : {30, 50, 150}, C : {20, 150}, h : {100}]

\* The colours handed to the FullColorDescription constructor.
constructorColours ==
    [L : {-10, 30, 50, 100},
     C : {-5, 0, 3, 32, 70, 300},
     h : {-90, 0, 100, 180, 725}]

outOfGamutBehaviour == {"preserve", "sacrifyChroma"}

\* The counters of the current parameter tuple start again when the tuple
\* (m_widgetDiameter, m_maxChroma, lightness, diagramBorder) has changed.
CountFromChange ==
    IF m_color'.L # m_color.L \/ m_widgetDiameter' # m_widgetDiameter
    THEN rasterCount' = 0 /\ paintCount' = 0
    ELSE UNCHANGED <<rasterCount, paintCount>>

\* A handler that did not change the colour.
noColorUpdate == [order |-> <<>>, slotSaw |-> <<>>]

\* setColor() having changed the colour: the new colour is stored, the
\* diagram cache is marked as outdated if the lightness differs, update()
\* schedules a paint event, colorChanged() is emitted; a slot connected to
\* the signal runs within the emit and finds the widget as it is then.
colorUpdateOf(newColor, lightnessDiffers, cacheReady) ==
    [order |-> IF lightnessDiffers
               THEN <<"store", "invalidate", "update", "emit">>
               ELSE <<"store", "update", "emit">>,
     slotSaw |-> <<[m_color |-> newColor, m_diagramCacheReady |-> cacheReady]>>]

\* setColor() that never marks the diagram cache as outdated
setColor_keepsCache(newColor) ==
    /\ m_color' = newColor
    /\ colorChanged' = IF newColor = m_color THEN 0 ELSE 1
    /\ colorUpdate' = IF newColor = m_color THEN noColorUpdate
                       ELSE colorUpdateOf(newColor, FALSE, m_diagramCacheReady)
    /\ UNCHANGED m_diagramCacheReady

\* setColor() that marks the diagram cache as outdated on every call
setColor_alwaysInvalidates(newColor) ==
    /\ m_color' = newColor
    /\ colorChanged' = IF newColor = m_color THEN 0 ELSE 1
    /\ colorUpdate' = IF newColor = m_color THEN noColorUpdate
                       ELSE colorUpdateOf(newColor, TRUE, FALSE)
    /\ m_diagramCacheReady' = FALSE

\* setColor() that moves the new colour into the gamut before storing it
setColor_mapsIntoGamut(newColor) ==
    LET stored == nearestInGamut(newColor)
    IN  IF stored = m_color
        THEN /\ colorChanged' = 0
             /\ colorUpdate' = noColorUpdate
             /\ UNCHANGED <<m_color, m_diagramCacheReady>>
        ELSE /\ m_color' = stored
             /\ m_diagramCacheReady' =
                    IF stored.L # m_color.L THEN FALSE ELSE m_diagramCacheReady
             /\ colorChanged' = 1
             /\ colorUpdate' = colorUpdateOf(stored, stored.L # m_color.L,
                                             m_diagramCacheReady')

\* setColor() that emits colorChanged() on every call
setColor_alwaysEmits(newColor) ==
    /\ m_color' = newColor
    /\ m_diagramCacheReady' =
           IF newColor.L # m_color.L THEN FALSE ELSE m_diagramCacheReady
    /\ colorChanged' = 1
    /\ colorUpdate' = colorUpdateOf(newColor, newColor.L # m_color.L,
                                    m_diagramCacheReady')

\* setColor() that emits colorChanged() before it looks at the cache
setColor_emitsFirst(newColor) ==
    IF newColor = m_color
    THEN /\ colorChanged' = 0
         /\ colorUpdate' = noColorUpdate
         /\ UNCHANGED <<m_color, m_diagramCacheReady>>
    ELSE /\ m_color' = newColor
         /\ m_diagramCacheReady' =
                IF newColor.L # m_color.L THEN FALSE ELSE m_diagramCacheReady
         /\ colorChanged' = 1
         /\ colorUpdate' =
                [order |-> IF newColor.L # m_color.L
                           THEN <<"store", "emit", "invalidate", "update">>
                           ELSE <<"store", "emit", "update">>,
                 slotSaw |-> <<[m_color |-> newColor,
                                m_diagramCacheReady |-> m_diagramCacheReady]>>]

\* ChromaHueDiagram::setColor
setColor(newColor) ==
    IF newColor = m_color
    THEN /\ colorChanged' = 0
         /\ colorUpdate' = noColorUpdate
         /\ UNCHANGED <<m_color, m_diagramCacheReady>>
    ELSE /\ m_color' = newColor
         /\ m_diagramCacheReady' =
                IF newColor.L # m_color.L THEN FALSE ELSE m_diagramCacheReady
         /\ colorChanged' = 1
         /\ colorUpdate' = colorUpdateOf(newColor, newColor.L # m_color.L,
                                         m_diagramCacheReady')

\* An application constructs a FullColorDescription from one of `colours`
\* and sets it as the colour of the widget.
SetColor(colours) ==
    \E c \in colours, how \in outOfGamutBehaviour :
        /\ lch' = c
        /\ behaviour' = how
        /\ setColor(FullColorDescription(c, how))
        /\ lastOp' = [op |-> "setColor", key |-> "none"]
        /\ UNCHANGED <<m_widgetDiameter, m_diagramOffset, m_diagramImage,
                       m_isWheelCacheReady, m_wheelImage, keyPresses, rasterVars, screenVars, polarVars, pickerVars, mouseVars>>
        /\ CountFromChange

\* resizeEvent() that marks the caches as outdated whatever the new size is
resizeEvent_alwaysInvalidates(width, height) ==
    LET newWidgetDiameter == Max(Min(width, height), 0)
    IN  /\ m_widgetDiameter' = newWidgetDiameter
        /\ m_diagramOffset' = truncDiv(newWidgetDiameter - 1, 2)
        /\ m_diagramCacheReady' = FALSE
        /\ m_isWheelCacheReady' = FALSE

\* resizeEvent() that forgets the diagram cache
resizeEvent_keepsCache(width, height) ==
    LET newWidgetDiameter == Max(Min(width, height), 0)
    IN  /\ m_widgetDiameter' = newWidgetDiameter
        /\ m_diagramOffset' = truncDiv(newWidgetDiameter - 1, 2)
        /\ m_isWheelCacheReady' = FALSE
        /\ UNCHANGED m_diagramCacheReady

\* ChromaHueDiagram::resizeEvent, the widget having the size width x height
resizeEvent(width, height) ==
    LET newWidgetDiameter == Max(Min(width, height), 0)
    IN  IF newWidgetDiameter # m_widgetDiameter
        THEN /\ m_widgetDiameter' = newWidgetDiameter
             /\ m_diagramOffset' = truncDiv(m_widgetDiameter' - 1, 2)
             /\ m_diagramCacheReady' = FALSE
             /\ m_isWheelCacheReady' = FALSE
        ELSE UNCHANGED <<m_widgetDiameter, m_diagramOffset, m_diagramCacheReady,
                         m_isWheelCacheReady>>

ResizeEvent ==
    \E width \in -1 .. MaxDiameter, height \in {-1, MaxDiameter} :
        /\ resizeEvent(width, height)
        /\ lastOp' = [op |-> "resizeEvent", key |-> "none"]
        /\ colorChanged' = 0
        /\ colorUpdate' = noColorUpdate
        /\ UNCHANGED <<m_color, m_diagramImage, m_wheelImage, lch, behaviour,
                       keyPresses, rasterVars, screenVars, polarVars, pickerVars, mouseVars>>
        /\ CountFromChange

\* updateDiagramCache() that regenerates the image on every call
updateDiagramCache_always ==
    /\ m_diagramImage' =
           generateDiagramImage(m_widgetDiameter, m_maxChroma, m_color.L, DiagramBorder)
    /\ m_diagramCacheReady' = TRUE
    /\ rasterCount' = saturated(rasterCount)

\* ChromaHueDiagram::updateDiagramCache
updateDiagramCache ==
    IF m_diagramCacheReady
    THEN UNCHANGED <<m_diagramImage, m_diagramCacheReady, rasterCount>>
    ELSE /\ m_diagramImage' =
               generateDiagramImage(m_widgetDiameter, m_maxChroma, m_color.L, DiagramBorder)
         /\ m_diagramCacheReady' = TRUE
         /\ rasterCount' = saturated(rasterCount)

\* ChromaHueDiagram::updateWheelCache; the wheel image depends on the
\* diameter alone.
updateWheelCache ==
    IF m_isWheelCacheReady
    THEN UNCHANGED <<m_wheelImage, m_isWheelCacheReady>>
    ELSE /\ m_wheelImage' = m_widgetDiameter
         /\ m_isWheelCacheReady' = TRUE

\* ChromaHueDiagram::paintEvent: it draws m_diagramImage and m_wheelImage
\* right after bringing both caches up to date.
PaintEvent ==
    /\ updateDiagramCache
    /\ updateWheelCache
    /\ paintCount' = saturated(paintCount)
    /\ lastOp' = [op |-> "paintEvent", key |-> "none"]
    /\ colorChanged' = 0
    /\ colorUpdate' = noColorUpdate
    /\ UNCHANGED <<m_color, m_widgetDiameter, m_diagramOffset, lch, behaviour,
                   keyPresses, rasterVars, screenVars, polarVars, pickerVars, mouseVars>>

\* keyPressEvent() without the test for a negative chroma
keyPressLch_noClamp(color, key) ==
    CASE key = "Up"       -> [color EXCEPT !.C = @ + singleStepChroma]
      [] key = "Down"     -> [color EXCEPT !.C = @ - singleStepChroma]
      [] key = "Left"     -> [color EXCEPT !.h = @ + singleStepHue]
      [] key = "Right"    -> [color EXCEPT !.h = @ - singleStepHue]
      [] key = "PageUp"   -> [color EXCEPT !.C = @ + pageStepChroma]
      [] key = "PageDown" -> [color EXCEPT !.C = @ - pageStepChroma]
      [] key = "Home"     -> [color EXCEPT !.h = @ + pageStepHue]
      [] key = "End"      -> [color EXCEPT !.h = @ - pageStepHue]

\* keyPressEvent: the LCh value it hands to the FullColorDescription
\* constructor for a key it recognizes.
keyPressLch(color, key) ==
    LET stepped == keyPressLch_noClamp(color, key)
    IN  IF stepped.C < 0 THEN [stepped EXCEPT !.C = 0] ELSE stepped

\* keyPressEvent() that leaves the LCh value as it is, out of the gamut or not
keyPressEvent_preserve(key) ==
    IF key = "other"
    THEN /\ colorChanged' = 0
         /\ colorUpdate' = noColorUpdate
         /\ UNCHANGED <<m_color, m_diagramCacheReady, lch, behaviour>>
    ELSE /\ lch' = keyPressLch(m_color, key)
         /\ behaviour' = "preserve"
         /\ setColor(FullColorDescription(lch', behaviour'))

\* ChromaHueDiagram::keyPressEvent: a key it does not recognize goes to
\* QWidget::keyPressEvent.
keyPressEvent(key) ==
    IF key = "other"
    THEN /\ colorChanged' = 0
         /\ colorUpdate' = noColorUpdate
         /\ UNCHANGED <<m_color, m_diagramCacheReady, lch, behaviour>>
    ELSE /\ lch' = keyPressLch(m_color, key)
         /\ behaviour' = "sacrifyChroma"
         /\ setColor(FullColorDescription(lch', behaviour'))

KeyPressEvent ==
    /\ keyPresses < MaxKeyPresses
    /\ keyPresses' = keyPresses + 1
    /\ \E key \in Keys :
        /\ keyPressEvent(key)
        /\ lastOp' = [op |-> "keyPressEvent", key |-> key]
    /\ UNCHANGED <<m_widgetDiameter, m_diagramOffset, m_diagramImage,
                   m_isWheelCacheReady, m_wheelImage, rasterVars, screenVars, polarVars, pickerVars, mouseVars>>
    /\ CountFromChange

-----------------------------------------------------------------------------
(* The widget ChromaHueDiagram: mouse and wheel events *)

\* m_widgetDiameter - 2 * diagramBorder: the diameter of the diagram and the
\* denominator of the Lab coordinates of a widget position.
diagramDiameter == m_widgetDiameter - 2 * DiagramBorder

\* The positions event->pos() takes: the pixels of the widget and a margin
\* around them, where a dragged pointer still reports to the widget.
pointerPositions == (-1 .. m_widgetDiameter) \X (-1 .. m_widgetDiameter)

\* ChromaHueDiagram::fromImageCoordinatesToAB: the numerators of (a, b)
\* over diagramDiameter.
fromImageCoordinatesToAB(imageCoordinates) ==
    [a |-> (imageCoordinates[1] - m_diagramOffset) * 2 * m_maxChroma,
     b |-> -((imageCoordinates[2] - m_diagramOffset) * 2 * m_maxChroma)]

\* ChromaHueDiagram::imageCoordinatesFromColor: the pixel of the marker.
imageCoordinatesFromColor ==
    LET lab == toLab(m_color)
    IN  <<qRound(lab.a * diagramDiameter + m_diagramOffset * 2 * m_maxChroma,
                 2 * m_maxChroma),
          qRound(-(lab.b * diagramDiameter) + m_diagramOffset * 2 * m_maxChroma,
                 2 * m_maxChroma)>>

\* ChromaHueDiagram::areImageCoordinatesWithinDiagramSurface: the distance
\* from (m_diagramOffset, m_diagramOffset) is at most (m_widgetDiameter - 1) / 2.
areImageCoordinatesWithinDiagramSurface(imageCoordinates) ==
    LET dx == imageCoordinates[1] - m_diagramOffset
        dy == imageCoordinates[2] - m_diagramOffset
    IN  /\ m_widgetDiameter >= 1
        /\ 4 * (dx * dx + dy * dy) <= (m_widgetDiameter - 1) * (m_widgetDiameter - 1)

\* Largest diameter of a widget that receives mouse events.
MaxMouseDiameter == 5

\* FullColorDescription::toLch(lab): chroma and hue of the Lab point
\* (aN / den, bN / den)
toLch(aN, bN, den) ==
    [C |-> chromaOfLab(aN, bN, den), h |-> atan2Degree(bN, aN)]

\* The Lab points of the widget positions, for every diameter of the diagram.
labOfPositions ==
    {<<2 * m_maxChroma * dx, 2 * m_maxChroma * dy, den>> :
        dx \in -MaxMouseDiameter .. MaxMouseDiameter,
        dy \in -MaxMouseDiameter .. MaxMouseDiameter,
        den \in 1 .. MaxMouseDiameter}

\* toLch of these points, computed once.
toLchOfPositions ==
    (<<0, 0, 0>> :> [C |-> 0, h |-> 0])
        @@ [lab \in labOfPositions |-> toLch(lab[1], lab[2], lab[3])]

\* FullColorDescription::toLch(lab) for the Lab point of a widget position
\* at the lightness of the current colour.
lchOfCoordinates(imageCoordinates) ==
    LET aB == fromImageCoordinatesToAB(imageCoordinates)
        polar == toLchOfPositions[<<aB.a, aB.b, diagramDiameter>>]
    IN  [L |-> m_color.L, C |-> polar.C, h |-> polar.h]

\* RgbColorSpace::inGamut for that Lab point.
inGamutCoordinates(imageCoordinates) ==
    LET aB == fromImageCoordinatesToAB(imageCoordinates)
    IN  inGamutLab(m_color.L, aB.a, aB.b, diagramDiameter)

\* Where a position lies.
whereIs(imageCoordinates) ==
    [within  |-> areImageCoordinatesWithinDiagramSurface(imageCoordinates),
     inGamut |-> inGamutCoordinates(imageCoordinates)]

\* The colour setColorFromImageCoordinates constructs:
\* FullColorDescription(colorSpace, lab, sacrifyChroma).
colorFromImageCoordinates(imageCoordinates) ==
    nearestInGamut(lchOfCoordinates(imageCoordinates))

\* The handler leaves the colour as it is.
colorUntouched ==
    /\ colorChanged' = 0
    /\ colorUpdate' = noColorUpdate
    /\ UNCHANGED <<m_color, m_diagramCacheReady, lch, behaviour>>

\* setColorFromImageCoordinates() that sets the colour also for the
\* position of the marker
setColorFromImageCoordinates_always(imageCoordinates) ==
    /\ lch' = lchOfCoordinates(imageCoordinates)
    /\ behaviour' = "sacrifyChroma"
    /\ setColor(colorFromImageCoordinates(imageCoordinates))

\* ChromaHueDiagram::setColorFromImageCoordinates; lch' is the polar form of
\* the Lab point it hands to the constructor of FullColorDescription.
setColorFromImageCoordinates(imageCoordinates) ==
    IF imageCoordinates # imageCoordinatesFromColor
    THEN /\ lch' = lchOfCoordinates(imageCoordinates)
         /\ behaviour' = "sacrifyChroma"
         /\ setColor(colorFromImageCoordinates(imageCoordinates))
    ELSE colorUntouched

\* mousePressEvent() that starts to track the mouse wherever the press is
mousePressEvent_anywhere(pos) ==
    /\ hasFocus' = TRUE
    /\ m_isMouseEventActive' = TRUE
    /\ cursor' = "BlankCursor"
    /\ setColorFromImageCoordinates(pos)
    /\ pickedAt' = {pos}
    /\ fallback' = "none"

\* ChromaHueDiagram::mousePressEvent
mousePressEvent(pos) ==
    IF areImageCoordinatesWithinDiagramSurface(pos)
    THEN /\ hasFocus' = TRUE
         /\ m_isMouseEventActive' = TRUE
         /\ cursor' = "BlankCursor"
         /\ setColorFromImageCoordinates(pos)
         /\ pickedAt' = {pos}
         /\ fallback' = "none"
    ELSE /\ fallback' = "QWidget::mousePressEvent"
         /\ pickedAt' = {}
         /\ colorUntouched
         /\ UNCHANGED <<hasFocus, m_isMouseEventActive, cursor>>

\* ChromaHueDiagram::mouseMoveEvent
mouseMoveEvent(pos) ==
    IF m_isMouseEventActive
    THEN /\ cursor' = IF areImageCoordinatesWithinDiagramSurface(pos)
                         /\ inGamutCoordinates(pos)
                      THEN "BlankCursor" ELSE "unset"
         /\ setColorFromImageCoordinates(pos)
         /\ pickedAt' = {pos}
         /\ fallback' = "none"
         /\ UNCHANGED <<hasFocus, m_isMouseEventActive>>
    ELSE /\ fallback' = "QWidget::mousePressEvent"
         /\ pickedAt' = {}
         /\ colorUntouched
         /\ UNCHANGED <<hasFocus, m_isMouseEventActive, cursor>>

\* ChromaHueDiagram::mouseReleaseEvent
mouseReleaseEvent(pos) ==
    IF m_isMouseEventActive
    THEN /\ cursor' = "unset"
         /\ m_isMouseEventActive' = FALSE
         /\ setColorFromImageCoordinates(pos)
         /\ pickedAt' = {pos}
         /\ fallback' = "none"
         /\ UNCHANGED hasFocus
    ELSE /\ fallback' = "QWidget::mousePressEvent"
         /\ pickedAt' = {}
         /\ colorUntouched
         /\ UNCHANGED <<hasFocus, m_isMouseEventActive, cursor>>

\* The vertical angle deltas of a wheel event, in eighths of a degree: no
\* vertical movement, and a turn of 60 standard steps down or up (half a
\* turn of the hue, which keeps the hues of the model few).
wheelDeltas == {-7200, 0, 7200}

\* Where the pointer is when the wheel is turned: at the centre, at the left
\* rim of the diagram surface, outside the widget.
wheelPositions ==
    {<<m_diagramOffset, m_diagramOffset>>, <<0, m_diagramOffset>>, <<-1, -1>>}

\* Helper::standardWheelSteps
standardWheelSteps(angleDeltaY) == angleDeltaY \div 120

\* wheelEvent() that turns the hue also while the mouse is tracked
wheelEvent_alsoWhileDragging(pos, angleDeltaY) ==
    IF /\ areImageCoordinatesWithinDiagramSurface(pos)
       /\ angleDeltaY # 0
    THEN /\ lch' = [m_color EXCEPT
                       !.h = @ + standardWheelSteps(angleDeltaY) * singleStepHue]
         /\ behaviour' = "sacrifyChroma"
         /\ setColor(FullColorDescription(lch', behaviour'))
         /\ pickedAt' = {}
         /\ fallback' = "none"
    ELSE /\ fallback' = "ignore"
         /\ pickedAt' = {}
         /\ colorUntouched

\* ChromaHueDiagram::wheelEvent
wheelEvent(pos, angleDeltaY) ==
    IF /\ ~m_isMouseEventActive
       /\ areImageCoordinatesWithinDiagramSurface(pos)
       /\ angleDeltaY # 0
    THEN /\ lch' = [m_color EXCEPT
                       !.h = @ + standardWheelSteps(angleDeltaY) * singleStepHue]
         /\ behaviour' = "sacrifyChroma"
         /\ setColor(FullColorDescription(lch', behaviour'))
         /\ pickedAt' = {}
         /\ fallback' = "none"
    ELSE /\ fallback' = "ignore"
         /\ pickedAt' = {}
         /\ colorUntouched

\* The events reach a widget that shows a diagram of at least one pixel.
MousePressEvent ==
    /\ diagramDiameter >= 1
    /\ \E pos \in pointerPositions :
        /\ mousePressEvent(pos)
        /\ pointer' = whereIs(pos)
    /\ lastOp' = [op |-> "mousePressEvent", key |-> "none"]
    /\ UNCHANGED <<m_widgetDiameter, m_diagramOffset, m_diagramImage,
                   m_isWheelCacheReady, m_wheelImage, keyPresses,
                   rasterVars, screenVars, polarVars, pickerVars>>
    /\ CountFromChange

MouseMoveEvent ==
    /\ diagramDiameter >= 1
    /\ \E pos \in pointerPositions :
        /\ mouseMoveEvent(pos)
        /\ pointer' = whereIs(pos)
    /\ lastOp' = [op |-> "mouseMoveEvent", key |-> "none"]
    /\ UNCHANGED <<m_widgetDiameter, m_diagramOffset, m_diagramImage,
                   m_isWheelCacheReady, m_wheelImage, keyPresses,
                   rasterVars, screenVars, polarVars, pickerVars>>
    /\ CountFromChange

MouseReleaseEvent ==
    /\ diagramDiameter >= 1
    /\ \E pos \in pointerPositions :
        /\ mouseReleaseEvent(pos)
        /\ pointer' = whereIs(pos)
    /\ lastOp' = [op |-> "mouseReleaseEvent", key |-> "none"]
    /\ UNCHANGED <<m_widgetDiameter, m_diagramOffset, m_diagramImage,
                   m_isWheelCacheReady, m_wheelImage, keyPresses,
                   rasterVars, screenVars, polarVars, pickerVars>>
    /\ CountFromChange

WheelEvent ==
    /\ diagramDiameter >= 1
    /\ \E pos \in wheelPositions, angleDeltaY \in wheelDeltas :
        /\ wheelEvent(pos, angleDeltaY)
        /\ pointer' = whereIs(pos)
        /\ lastOp' = [op |-> "wheelEvent",
                      key |-> IF angleDeltaY = 0 THEN "horizontal" ELSE "vertical"]
    /\ UNCHANGED <<m_widgetDiameter, m_diagramOffset, m_diagramImage,
                   m_isWheelCacheReady, m_wheelImage, keyPresses,
                   hasFocus, m_isMouseEventActive, cursor,
                   rasterVars, screenVars, polarVars, pickerVars>>
    /\ CountFromChange

-----------------------------------------------------------------------------
(* The rasterizer called with arbitrary arguments *)

rasterArguments ==
    [imageSize : -2 .. MaxImageSize, maxChroma : {-8, 0, 8, 132},
     lightness : {-10, 50, 150}, border : -1 .. MaxBorder]

\* Nothing was called yet.
notCalled == [called |-> FALSE, image |-> nullImage, divisors |-> {}]

Rasterize ==
    /\ ~r_out.called
    /\ r_out' = LET done == rasterize(r_in.imageSize, r_in.maxChroma,
                                      r_in.lightness, r_in.border)
                IN  [called |-> TRUE, image |-> done.image, divisors |-> done.divisors]
    /\ UNCHANGED <<r_in, widgetVars, screenVars, polarVars, pickerVars, mouseVars>>

-----------------------------------------------------------------------------
(* PolarPointF constructed from arbitrary arguments *)

\* Radials and angles in steps: whole degrees, and fractions of a degree
\* next to 0 and next to -180.
polarArguments ==
    [radial : {-5 * QrealSteps, -1, 0, 1, 5 * QrealSteps},
     angle  : {d * QrealSteps : d \in {-720, -361, -360, -180, -1, 0, 10, 190,
                                        359, 360, 361, 720}}
              \cup {-3, -2, -1, 1, -180 * QrealSteps - 1}]

\* Nothing was constructed yet.
notConstructed == [called |-> FALSE, m_radial |-> 0, m_angleDegree |-> 0]

Construct ==
    /\ ~p_out.called
    /\ p_out' = LET made == PolarPointF(p_in.radial, p_in.angle)
                IN  [called |-> TRUE, m_radial |-> made.m_radial,
                     m_angleDegree |-> made.m_angleDegree]
    /\ UNCHANGED <<p_in, widgetVars, rasterVars, screenVars, pickerVars, mouseVars>>

-----------------------------------------------------------------------------
(* WheelColorPicker: a ColorWheel and a chroma-lightness diagram *)

\* The hues and colours an application sets.
pickerHues == {-10, 0, 222, 300, 359, 500}

pickerColours == [L : {32, 300}, C : {20, 115}, h : {-10, 10, 300, 890}]

WheelKeys == {"Plus", "Minus", "other"}

\* The chroma-lightness diagram told the new hue of the wheel: it takes the
\* hue as it is and corrects its chroma into the gamut of that hue.
diagramSetHue(color, newHue) ==
    moveChromaIntoGamut([color EXCEPT !.h = newHue])

\* ColorWheel::setHue that folds the hue into [0, 360) before storing it
setHue_normalizes(newHue) ==
    /\ m_hue' = normalizedAngleDegree(newHue)
    /\ m_currentColor' = diagramSetHue(m_currentColor, m_hue')

\* ColorWheel::setHue, and the slot of WheelColorPicker that hueChanged()
\* calls: the hue is stored as given.
setHue(newHue) ==
    IF newHue = m_hue
    THEN UNCHANGED <<m_hue, m_currentColor>>
    ELSE /\ m_hue' = newHue
         /\ m_currentColor' = diagramSetHue(m_currentColor, newHue)

SetHue ==
    \E newHue \in pickerHues :
        /\ setHue(newHue)
        /\ pickerOp' = [op |-> "setHue", before |-> m_hue, hue |-> newHue]
        /\ UNCHANGED <<widgetVars, rasterVars, screenVars, polarVars, mouseVars>>

\* ColorWheel::keyPressEvent that steps the hue and does not fold it
wheelKeyPressEvent_noNormalization(key) ==
    CASE key = "Plus"  -> setHue(m_hue + singleStepHue)
      [] key = "Minus" -> setHue(m_hue - singleStepHue)
      [] OTHER         -> UNCHANGED <<m_hue, m_currentColor>>

\* ColorWheel::keyPressEvent: the hue is stepped and normalized according
\* to PolarPointF::normalizedAngleDegree.
wheelKeyPressEvent(key) ==
    CASE key = "Plus"  -> setHue(normalizedAngleDegree(m_hue + singleStepHue))
      [] key = "Minus" -> setHue(normalizedAngleDegree(m_hue - singleStepHue))
      [] OTHER         -> UNCHANGED <<m_hue, m_currentColor>>

WheelKeyPressEvent ==
    \E key \in WheelKeys :
        /\ wheelKeyPressEvent(key)
        /\ pickerOp' = [op |-> IF key = "other" THEN "ignoredKey" ELSE "keyPressEvent",
                        before |-> m_hue, hue |-> m_hue]
        /\ UNCHANGED <<widgetVars, rasterVars, screenVars, polarVars, mouseVars>>

\* WheelColorPicker::setCurrentColor that leaves the colour wheel alone
setCurrentColor_diagramOnly(newColor) ==
    /\ m_currentColor' = newColor
    /\ UNCHANGED m_hue

\* WheelColorPicker::setCurrentColor: the diagram stores the colour as it
\* is given, the wheel is set to the hue of that colour.
setCurrentColor(newColor) ==
    /\ m_currentColor' = newColor
    /\ m_hue' = newColor.h

SetCurrentColor ==
    \E newColor \in pickerColours :
        /\ setCurrentColor(newColor)
        /\ pickerOp' = [op |-> "setCurrentColor", before |-> m_hue,
                        hue |-> newColor.h]
        /\ UNCHANGED <<widgetVars, rasterVars, screenVars, polarVars, mouseVars>>

-----------------------------------------------------------------------------
(* Specifications *)

\* The screens a widget is shown on.
DevicePixelRatios == {1, 2}

\* No rasterizer call and no PolarPointF under test.
InitIdle ==
    /\ r_in = [imageSize |-> 0, maxChroma |-> m_maxChroma,
               lightness |-> defaultLightness, border |-> DiagramBorder]
    /\ r_out = notCalled
    /\ p_in = [radial |-> 0, angle |-> 0]
    /\ p_out = notConstructed

\* WheelColorPicker after its constructor: both children show the default
\* colour.
InitPicker ==
    /\ m_hue = defaultHue
    /\ m_currentColor =
           [L |-> defaultLightness, C |-> versatileSrgbChroma, h |-> defaultHue]
    /\ pickerOp = [op |-> "constructor", before |-> defaultHue, hue |-> defaultHue]

\* No mouse button was pressed on the diagram yet.
InitPointer ==
    /\ m_isMouseEventActive = FALSE
    /\ cursor = "unset"
    /\ hasFocus = FALSE
    /\ fallback = "none"
    /\ pointer = [within |-> FALSE, inGamut |-> FALSE]
    /\ pickedAt = {}

InitWidget ==
    /\ lch = [L |-> defaultLightness, C |-> versatileSrgbChroma, h |-> defaultHue]
    /\ behaviour = "sacrifyChroma"
    /\ m_color = FullColorDescription(lch, behaviour)
    /\ m_widgetDiameter = 0
    /\ m_diagramOffset = 0
    /\ m_diagramCacheReady = FALSE
    /\ m_diagramImage = nullImage
    /\ m_isWheelCacheReady = FALSE
    /\ m_wheelImage = -1
    /\ lastOp = [op |-> "constructor", key |-> "none"]
    /\ colorChanged = 0
    /\ colorUpdate = noColorUpdate
    /\ rasterCount = 0
    /\ paintCount = 0
    /\ keyPresses = 0

Init ==
    /\ InitWidget
    /\ InitPicker
    /\ InitPointer
    /\ InitIdle
    /\ devicePixelRatioF = 1

\* The widget on the screen: resized, painted, its colour set and keys pressed.
Next ==
    \/ SetColor(shownColours)
    \/ ResizeEvent
    \/ PaintEvent
    \/ KeyPressEvent

Spec == Init /\ [][Next]_vars

\* The colour of the widget before it is shown: every colour an application
\* may construct, and the keys.
NextColor ==
    \/ SetColor(constructorColours)
    \/ KeyPressEvent

SpecColor == Init /\ [][NextColor]_vars

\* The rasterizer on its own.
InitRaster ==
    /\ InitWidget
    /\ InitPicker
    /\ InitPointer
    /\ devicePixelRatioF = 1
    /\ r_in \in rasterArguments
    /\ r_out = notCalled
    /\ p_in = [radial |-> 0, angle |-> 0]
    /\ p_out = notConstructed

NextRaster == Rasterize

SpecRaster == InitRaster /\ [][NextRaster]_vars

\* The widget on a screen of some device pixel ratio: resized, painted and
\* its colour set.
InitHiDpi ==
    /\ InitWidget
    /\ InitPicker
    /\ InitPointer
    /\ InitIdle
    /\ devicePixelRatioF \in DevicePixelRatios

NextHiDpi ==
    \/ SetColor(shownColours)
    \/ ResizeEvent
    \/ PaintEvent

SpecHiDpi == InitHiDpi /\ [][NextHiDpi]_vars

\* The PolarPointF constructor on its own.
InitPolar ==
    /\ InitWidget
    /\ InitPicker
    /\ InitPointer
    /\ devicePixelRatioF = 1
    /\ r_in = [imageSize |-> 0, maxChroma |-> m_maxChroma,
               lightness |-> defaultLightness, border |-> DiagramBorder]
    /\ r_out = notCalled
    /\ p_in \in polarArguments
    /\ p_out = notConstructed

NextPolar == Construct

SpecPolar == InitPolar /\ [][NextPolar]_vars

\* The colour picker made of a wheel and a diagram: its colour and its hue
\* set by the application, the hue stepped with the keys of the wheel.
NextPicker ==
    \/ SetHue
    \/ SetCurrentColor
    \/ WheelKeyPressEvent

SpecPicker == Init /\ [][NextPicker]_vars

\* The colours the application has set before the pointer is used: the
\* default, one of another lightness, one out of the gamut, one of a
\* lightness that the profile cannot represent.
draggedColours ==
    {[L |-> defaultLightness, C |-> versatileSrgbChroma, h |-> defaultHue],
     [L |-> 30, C |-> 20, h |-> 100], [L |-> 50, C |-> 150, h |-> 100],
     [L |-> 150, C |-> 20, h |-> 100]}

\* The widget shown and painted once, at a diameter that leaves room for
\* the diagram.
InitShown ==
    /\ lch \in draggedColours
    /\ behaviour \in outOfGamutBehaviour
    /\ m_color = FullColorDescription(lch, behaviour)
    /\ m_widgetDiameter \in 2 * DiagramBorder + 1 .. MaxMouseDiameter
    /\ m_diagramOffset = truncDiv(m_widgetDiameter - 1, 2)
    /\ m_diagramCacheReady = TRUE
    /\ m_diagramImage = generateDiagramImage(m_widgetDiameter, m_maxChroma,
                                             m_color.L, DiagramBorder)
    /\ m_isWheelCacheReady = TRUE
    /\ m_wheelImage = m_widgetDiameter
    /\ lastOp = [op |-> "paintEvent", key |-> "none"]
    /\ colorChanged = 0
    /\ colorUpdate = noColorUpdate
    /\ rasterCount = 1
    /\ paintCount = 1
    /\ keyPresses = 0

InitMouse ==
    /\ InitShown
    /\ InitPicker
    /\ InitPointer
    /\ InitIdle
    /\ devicePixelRatioF = 1

\* The pointer on the widget: buttons pressed and released, the pointer
\* moved, the wheel turned.
NextMouse ==
    \/ MousePressEvent
    \/ MouseMoveEvent
    \/ MouseReleaseEvent
    \/ WheelEvent

SpecMouse == InitMouse /\ [][NextMouse]_vars

-----------------------------------------------------------------------------
(* Properties of the diagram image cache *)

\* The rasterization of the parameter tuple the widget holds now.
currentRasterization ==
    generateDiagramImage(m_widgetDiameter, m_maxChroma, m_color.L, DiagramBorder)

\* The image shows at least one pixel of the gamut.
showsGamut(image) == \E p \in DOMAIN image.pixel : image.pixel[p].alpha > 0

\* C1: whenever paintEvent has fetched the diagram image, after whatever
\* sequence of setColor, resizeEvent and key press calls, the cache is marked
\* as ready and the image it painted is exactly the rasterization of the
\* image size, chroma range, lightness and border current at that call.
C1_CacheCoherence ==
    lastOp.op = "paintEvent" =>
        /\ m_diagramCacheReady
        /\ m_diagramImage = currentRasterization

\* A paint event that had to regenerate an image showing the gamut, at a
\* lightness other than the one the widget was constructed with.
C1_Witness ==
    /\ lastOp.op = "paintEvent"
    /\ rasterCount = 1
    /\ paintCount = 1
    /\ m_color.L # defaultLightness
    /\ m_widgetDiameter = MaxDiameter
    /\ showsGamut(m_diagramImage)

\* C2: the image is rasterized only by the paint event's fetch and only
\* when the cache is outdated: no setter rasterizes or touches the image, a
\* fetch with the cache ready does neither, and between two changes of the
\* parameter tuple there is at most one rasterization, however many fetches.
C2_LazyRasterization ==
    [][ /\ lastOp'.op # "paintEvent" =>
              /\ rasterCount' \in {rasterCount, 0}
              /\ m_diagramImage' = m_diagramImage
        /\ (lastOp'.op = "paintEvent" /\ m_diagramCacheReady) =>
              /\ rasterCount' = rasterCount
              /\ m_diagramImage' = m_diagramImage
        /\ (lastOp'.op = "paintEvent" /\ ~m_diagramCacheReady) =>
              rasterCount' = saturated(rasterCount)
        /\ rasterCount' <= 1 ]_vars

\* Several paint events of one parameter tuple, one rasterization.
C2_Witness ==
    /\ lastOp.op = "paintEvent"
    /\ paintCount >= 2
    /\ rasterCount = 1
    /\ showsGamut(m_diagramImage)

\* C3: a setter called with the value already stored changes nothing: no
\* field of the widget, not the ready flag of the cache, not the image.
C3_SameValueSetterIsNoOp ==
    [][ /\ (lastOp'.op = "setColor" /\ FullColorDescription(lch', behaviour') = m_color) =>
              UNCHANGED <<m_color, m_widgetDiameter, m_diagramOffset,
                          m_diagramCacheReady, m_diagramImage,
                          m_isWheelCacheReady, m_wheelImage, rasterCount>>
        /\ (lastOp'.op = "resizeEvent" /\ m_widgetDiameter' = m_widgetDiameter) =>
              UNCHANGED <<m_color, m_widgetDiameter, m_diagramOffset,
                          m_diagramCacheReady, m_diagramImage,
                          m_isWheelCacheReady, m_wheelImage, rasterCount>> ]_vars

\* setColor() was called with the colour already stored (it emitted no
\* signal) while the cache held a generated image, and the cache is still ready.
C3_Witness ==
    /\ lastOp.op = "setColor"
    /\ colorChanged = 0
    /\ paintCount >= 1
    /\ m_diagramCacheReady
    /\ showsGamut(m_diagramImage)

C5_InvalidatesIffLightnessChanged ==
    [][ lastOp'.op \in {"setColor", "keyPressEvent"} =>
           /\ m_color'.L # m_color.L => ~m_diagramCacheReady'
           /\ m_color'.L = m_color.L =>
                 /\ m_diagramCacheReady' = m_diagramCacheReady
                 /\ m_diagramImage' = m_diagramImage ]_vars

\* setColor() changed chroma or hue at the same lightness (it emitted the
\* signal) and the image of that lightness is still marked as ready.
C5_Witness ==
    /\ lastOp.op = "setColor"
    /\ colorChanged = 1
    /\ paintCount >= 1
    /\ m_diagramCacheReady
    /\ showsGamut(m_diagramImage)

-----------------------------------------------------------------------------
(* Properties of the gamut mapping *)

\* C6, as stated: for every in-gamut LCh colour the gamut mapper returns a
\* colour with the same coordinates as its input.
C6_InGamutUnchanged ==
    (behaviour = "sacrifyChroma" /\ inGamut(lch)) => hasSameCoordinates(m_color, lch)

\* C6, as the mapper does it: an in-gamut colour comes back with the same
\* coordinates when its chroma is not negative and its hue lies in [0, 360);
\* any other in-gamut colour comes back normalized; and mapping the result
\* once more changes nothing.
C6_NormalizedInGamutUnchanged ==
    behaviour = "sacrifyChroma" =>
        /\ (inGamut(lch) /\ lch.C >= 0 /\ lch.h \in 0 .. 359) =>
               hasSameCoordinates(m_color, lch)
        /\ inGamut(lch) => hasSameCoordinates(m_color, normalizeLch(lch))
        /\ nearestInGamut(m_color) = m_color

\* A colour of positive chroma inside the gamut went through the mapper.
C6_Witness ==
    /\ lastOp.op = "setColor"
    /\ behaviour = "sacrifyChroma"
    /\ inGamut(lch)
    /\ lch.C > 0
    /\ lch.h \in 0 .. 359
    /\ m_color = lch

C9_NoNegativeChroma ==
    /\ (lastOp.op = "keyPressEvent" /\ lastOp.key # "other") =>
           lch.C >= 0 /\ m_color.C >= 0
    /\ (behaviour = "sacrifyChroma" /\ lch.C < 0) =>
           m_color = nearestInGamut([lch EXCEPT !.C = 0])

\* A key that lowers the chroma took the colour to chroma 0 from a chroma
\* less than one step away from it.
C9_Witness ==
    /\ lastOp.op = "keyPressEvent"
    /\ lastOp.key \in {"Down", "PageDown"}
    /\ colorChanged = 1
    /\ lch.C = 0
    /\ m_color.C = 0
    /\ m_color.h = lch.h

-----------------------------------------------------------------------------
(* Properties of the rasterizer *)

C11_ImageSizeExact ==
    /\ lastOp.op = "constructor" => m_diagramImage.size = 0
    /\ lastOp.op = "paintEvent" => m_diagramImage.size = m_widgetDiameter

\* The pixels of the image the rasterizer returned.
rasterPixels == DOMAIN r_out.image.pixel

\* C12: for an image size s >= 2 and a border b >= 1 every pixel with x < b,
\* y < b, x > s-1-b or y > s-1-b is transparent, and when 2 * b >= s the
\* whole image is transparent, and is an image all the same.
C12_BorderTransparent ==
    (r_out.called /\ r_in.imageSize >= 2 /\ r_in.border >= 1) =>
        /\ ~r_out.image.isNull
        /\ \A p \in rasterPixels :
              (\/ p[1] < r_in.border
               \/ p[2] < r_in.border
               \/ p[1] > r_in.imageSize - 1 - r_in.border
               \/ p[2] > r_in.imageSize - 1 - r_in.border)
              => r_out.image.pixel[p].alpha = 0
        /\ 2 * r_in.border >= r_in.imageSize =>
              \A p \in rasterPixels : r_out.image.pixel[p].alpha = 0

\* An image with a border that shows the gamut inside the border.
C12_Witness ==
    /\ r_out.called
    /\ r_in.imageSize >= 2
    /\ r_in.border >= 1
    /\ showsGamut(r_out.image)

\* The Lab point of pixel p lies within the chroma range of the image.
withinChromaRange(p) ==
    LET lab == labOfPixel(p[1], p[2], r_in.imageSize, r_in.maxChroma, r_in.border)
        den == r_in.imageSize - 2 * r_in.border
    IN  Square(lab.a) + Square(lab.b) <= Square(r_in.maxChroma) * Square(den)

\* Pixel p lies, at least in part, in the circle the border leaves.
withinCircle(p) ==
    ellipseCoverage(p[1], p[2], r_in.border, r_in.imageSize - 2 * r_in.border) > 0

\* C13: every pixel whose Lab point lies within the chroma range and inside
\* the circle carries a colour (alpha > 0), in the gamut or not; with border
\* 0 these include the top, bottom, left and right centre pixels; all other
\* pixels are transparent.
C13_OpaqueInterior ==
    (r_out.called /\ r_in.imageSize >= 2 /\ r_in.maxChroma > 0) =>
        /\ \A p \in rasterPixels :
              r_out.image.pixel[p].alpha > 0 <=> (withinChromaRange(p) /\ withinCircle(p))
        /\ r_in.border = 0 =>
              LET mid  == r_in.imageSize \div 2
                  last == r_in.imageSize - 1
              IN  \A p \in {<<mid, 0>>, <<mid, last>>, <<0, mid>>, <<last, mid>>} :
                      r_out.image.pixel[p].alpha > 0

\* The pixel the tests read as the centre: (imageSize / 2, imageSize / 2).
centrePixel == <<r_in.imageSize \div 2, r_in.imageSize \div 2>>

\* The Lab numerators scale * (x - imageSize / 2, imageSize / 2 - y) of pixel
\* p over imageSize - 2 * border, scale being 2 * maxChroma / (imageSize - 2 * border).
scaledFromCentre(p) ==
    [a |-> r_in.maxChroma * (2 * p[1] - r_in.imageSize),
     b |-> r_in.maxChroma * (r_in.imageSize - 2 * p[2])]

-----------------------------------------------------------------------------
(* Properties of the device pixel ratio *)

\* physicalPixelWidgetDiameter(): the side of paintEvent's paintBuffer, in
\* physical pixels.
physicalPixelWidgetDiameter == m_widgetDiameter * devicePixelRatioF

\* C15: on a screen of device pixel ratio r the diagram image has
\* imageSize * r physical pixels per side for the logical size imageSize,
\* and the cached image the widget paints has the physical size of the
\* paint buffer it is drawn into.
C15_ImageInPhysicalPixels ==
    (lastOp.op = "paintEvent" /\ m_widgetDiameter >= 2) =>
        /\ m_diagramImage.size = m_widgetDiameter * devicePixelRatioF
        /\ m_diagramImage.size = physicalPixelWidgetDiameter
        /\ m_diagramImage.size = m_widgetDiameter * m_diagramImage.devicePixelRatio

\* C16: the device pixel ratio changes nothing but the devicePixelRatio of
\* the image fetched: the image has imageSize x imageSize pixels and its
\* devicePixelRatio() is the ratio in force, 1 by default, also when the
\* image is fully transparent.
C16_RatioIsMetadata ==
    lastOp.op = "paintEvent" =>
        /\ m_diagramImage.devicePixelRatio = devicePixelRatioF
        /\ m_widgetDiameter >= 2 => m_diagramImage.size = m_widgetDiameter

-----------------------------------------------------------------------------
(* Properties of PolarPointF *)

\* C18: every PolarPointF constructed from (radial, angle) has radial() >= 0
\* and 0 <= angleDegree() < 360; a negative radial is replaced by its
\* absolute value and 180 degrees are added to the angle; so
\* PolarPointF(-5, 10) == PolarPointF(5, 190).
C18_PolarPointNormalized ==
    /\ p_out.called =>
          /\ p_out.m_radial >= 0
          /\ 0 <= p_out.m_angleDegree
          /\ p_out.m_angleDegree < 360 * QrealSteps
          /\ p_in.radial < 0 => p_out.m_radial = -p_in.radial
    /\ polarEqual(PolarPointF(-5 * QrealSteps, 10 * QrealSteps),
                  PolarPointF(5 * QrealSteps, 190 * QrealSteps))

-----------------------------------------------------------------------------
\* C17: out-of-range parameters are never fatal.  For every image size of
\* at least 2 the rasterizer completes and returns a non-null image of that
\* size, whatever the border (negative, 0, exactly half the size, larger
\* than the size), the lightness (negative, above 100) and the chroma range
\* (negative, 0, very large).
C17_OutOfRangeNeverFatal ==
    (r_out.called /\ r_in.imageSize >= 2) =>
        /\ ~r_out.image.isNull
        /\ r_out.image.size = r_in.imageSize
        /\ DOMAIN r_out.image.pixel = pixelsOf(r_in.imageSize)

\* The border is exactly half the size (the scale factor was divided by
\* zero), the lightness is negative and the chroma range is negative.
C17_Witness ==
    /\ r_out.called
    /\ r_in.imageSize >= 2
    /\ r_in.imageSize = 2 * r_in.border
    /\ 0 \in r_out.divisors
    /\ r_in.lightness < 0
    /\ r_in.maxChroma < 0
    /\ ~r_out.image.isNull

-----------------------------------------------------------------------------
-----------------------------------------------------------------------------
\* C20: change notification.  A call of the setter, from the application or
\* from a key press, emits colorChanged() exactly once when it changes the
\* stored colour and emits nothing when the colour it is given is the one
\* already stored; hence over any sequence of calls the number of signals
\* equals the number of calls that changed the value.
C20_SignalIffChanged ==
    [][lastOp'.op \in {"setColor", "keyPressEvent"} =>
          colorChanged' = IF m_color' # m_color THEN 1 ELSE 0]_vars

\* The setter was called with the colour that is already stored, an
\* out-of-range one, and emitted nothing.
C20_Witness ==
    /\ lastOp.op = "setColor"
    /\ colorChanged = 0
    /\ behaviour = "preserve"
    /\ lch.C = 300
    /\ hasSameCoordinates(m_color, lch)

-----------------------------------------------------------------------------
-----------------------------------------------------------------------------
-----------------------------------------------------------------------------
\* C23: a colour update within the widget is strictly ordered.  The new
\* colour is stored first, then the diagram cache is marked as outdated if
\* the lightness changed, then the repaint is requested, and only then the
\* change signal is emitted; so neither a slot connected to the signal nor
\* a paint event finds the new colour together with a diagram cache that
\* is marked as valid but holds the image of the old lightness.
C23_ColorUpdateOrdered ==
    /\ colorUpdate.order \in {<<>>, <<"store", "update", "emit">>,
                               <<"store", "invalidate", "update", "emit">>}
    /\ \A i \in DOMAIN colorUpdate.slotSaw :
          LET saw == colorUpdate.slotSaw[i]
          IN  /\ saw.m_color = m_color
              /\ saw.m_diagramCacheReady =>
                    m_diagramImage = generateDiagramImage(m_widgetDiameter,
                                         m_maxChroma, saw.m_color.L, DiagramBorder)
    /\ m_diagramCacheReady => m_diagramImage = currentRasterization

\* The colour was changed to one of another lightness while the cache held
\* the valid image of the old lightness: the slot found the cache marked
\* as outdated.
C23_Witness ==
    /\ colorUpdate.order = <<"store", "invalidate", "update", "emit">>
    /\ colorUpdate.slotSaw = <<[m_color |-> m_color, m_diagramCacheReady |-> FALSE]>>
    /\ showsGamut(m_diagramImage)
    /\ m_diagramImage # currentRasterization


\* What setColorFromImageCoordinates(p) promises of the colour it leaves:
\* the lightness it found; for a Lab point in the gamut the chroma and hue
\* of that point; for any other point its hue, with the chroma at the
\* boundary of the gamut (no chroma where the lightness has no gamut).
pickedColourIs(p) ==
    LET point    == lchOfCoordinates(p)
        boundary == gamutChroma(m_color.L, point.h \div 90)
    IN  /\ m_color'.L = m_color.L
        /\ IF inGamutCoordinates(p)
           THEN /\ m_color'.C = point.C
                /\ (m_color'.h = point.h \/ point.C = 0)
           ELSE /\ m_color'.h = point.h
                /\ m_color'.C <= Max(boundary, 0)
                /\ m_color'.C >= boundary - gamutPrecision

C25_MouseTracking ==
    [][/\ (lastOp'.op = "mousePressEvent" /\ pointer'.within)
              => m_isMouseEventActive'
       /\ (~m_isMouseEventActive /\ m_isMouseEventActive')
              => (lastOp'.op = "mousePressEvent" /\ pointer'.within)
       /\ lastOp'.op = "mouseReleaseEvent" => ~m_isMouseEventActive'
       /\ (m_isMouseEventActive /\ ~m_isMouseEventActive')
              => lastOp'.op = "mouseReleaseEvent"
       /\ (lastOp'.op = "mousePressEvent" /\ ~pointer'.within)
              => /\ m_isMouseEventActive' = m_isMouseEventActive
                 /\ hasFocus' = hasFocus
                 /\ m_color' = m_color
       /\ (lastOp'.op \in {"mouseMoveEvent", "mouseReleaseEvent"}
              /\ ~m_isMouseEventActive)
              => m_color' = m_color]_vars

\* The mouse is dragged: a move while the widget tracks it has changed the
\* colour.
C25_Witness ==
    /\ m_isMouseEventActive
    /\ lastOp.op = "mouseMoveEvent"
    /\ colorChanged = 1


\* C26: the cursor is blank only while the widget tracks the mouse and the
\* last pointer position lies within the diagram surface and on a colour of
\* the gamut; after a mouse release the cursor is visible.
C26_CursorHiddenOnlyInGamut ==
    /\ cursor = "BlankCursor"
          => (m_isMouseEventActive /\ pointer.within /\ pointer.inGamut)
    /\ lastOp.op = "mouseReleaseEvent" => cursor = "unset"


\* The wheel event is one that the widget handles: it is not tracking the
\* mouse, the pointer is within the diagram surface, the wheel has turned
\* vertically.
wheelEventHandled ==
    /\ ~m_isMouseEventActive
    /\ pointer'.within
    /\ lastOp'.key = "vertical"

\* C27: a wheel event changes the colour only if the widget is not tracking
\* the mouse, the pointer is within the diagram surface and the vertical
\* angle delta is not zero; every other wheel event is ignored and leaves
\* the colour, the cache flags and the cached images as they are.
C27_WheelEventFrame ==
    [][lastOp'.op = "wheelEvent"
          => /\ m_color' # m_color => wheelEventHandled
             /\ ~wheelEventHandled
                   => /\ fallback' = "ignore"
                      /\ m_color' = m_color
                      /\ m_diagramCacheReady' = m_diagramCacheReady
                      /\ m_isWheelCacheReady' = m_isWheelCacheReady
                      /\ m_diagramImage' = m_diagramImage
                      /\ m_wheelImage' = m_wheelImage]_vars

\* The wheel was turned within the diagram during a drag and the event was
\* ignored, the caches being ready.
C27_Witness ==
    /\ lastOp = [op |-> "wheelEvent", key |-> "vertical"]
    /\ m_isMouseEventActive
    /\ pointer.within
    /\ fallback = "ignore"
    /\ m_diagramCacheReady
    /\ m_isWheelCacheReady


\* C28: a mouse move or mouse release that arrives while the widget is not
\* tracking the mouse goes to QWidget's default handler of that same event
\* and changes nothing else of the widget.
C28_FallbackToSameEvent ==
    [][(~m_isMouseEventActive
           /\ lastOp'.op \in {"mouseMoveEvent", "mouseReleaseEvent"})
          => /\ fallback' = "QWidget::" \o lastOp'.op
             /\ m_color' = m_color
             /\ m_isMouseEventActive' = m_isMouseEventActive
             /\ hasFocus' = hasFocus
             /\ cursor' = cursor]_vars


\* C29: for every pixel within the diagram surface the Lab point that
\* generateDiagramImage paints on it is the Lab point that
\* fromImageCoordinatesToAB gives for a pointer on it, and the marker of an
\* in-gamut colour picked on a pixel lies on that pixel.
C29_PaintedIsPicked ==
    diagramDiameter >= 1 =>
        /\ \A p \in pixelsOf(m_widgetDiameter) :
              areImageCoordinatesWithinDiagramSurface(p)
                 => labOfPixel(p[1], p[2], m_widgetDiameter, m_maxChroma, DiagramBorder)
                       = fromImageCoordinatesToAB(p)
        /\ \A p \in pickedAt :
              (pointer.within /\ pointer.inGamut) => imageCoordinatesFromColor = p


====
